---- MODULE Spec2Model ----
(***************************************************************************)
(* Emergency Lighting Detection API (app.py, utils.py).                    *)
(*                                                                         *)
(* Two specifications over one set of variables:                           *)
(*   Spec      the Flask handlers upload / get_result and the              *)
(*             background_process worker threads, stage by stage;          *)
(*   SpecGroup the grouping fold (the inline grouping of                   *)
(*             background_process and utils.group_lights) over bounded     *)
(*             rulebooks and detection lists.                              *)
(*                                                                         *)
(* Python strings that the code inspects character by character (symbols,  *)
(* OCR text, summary keys) are sequences of one-character strings;         *)
(* strings that are only stored and compared (descriptions, messages,      *)
(* document names) are TLA+ strings.  A Python dict whose order matters    *)
(* (summary, final_result) is a sequence of entries in insertion order.    *)
(***************************************************************************)
EXTENDS Integers, Sequences, FiniteSets, TLC

VARIABLES
    processing_status,  \* app.py:17  dict pdf_name -> {"status", "result" | "message"}
    files,              \* the file system: path -> [content, whole], whole unless the
                        \* write failed midway
    threads,            \* the background_process threads started so far, in start order
    firstComplete,      \* history: the first "complete" response get_result gave per pdf_name
    statusWrites,       \* history: assignments to processing_status[n] after its creation
    fileWriters,        \* history: path -> the names whose workers have written the path
    gMode,              \* SpecGroup: which grouper runs ("app" | "utils" | "off")
    gRulebook,          \* SpecGroup: the rulebook argument
    gDets,              \* SpecGroup: the detections (their "symbol" fields)
    gIdx,               \* SpecGroup: number of detections folded so far
    gSummary,           \* SpecGroup: the summary dict
    gFinal,             \* SpecGroup: final_result (app) once built
    gPc                 \* SpecGroup: "fold" | "final" | "done"

jobVars == <<processing_status, files, threads, firstComplete, statusWrites, fileWriters>>
groupVars == <<gMode, gRulebook, gDets, gIdx, gSummary, gFinal, gPc>>
vars == <<processing_status, files, threads, firstComplete, statusWrites, fileWriters,
          gMode, gRulebook, gDets, gIdx, gSummary, gFinal, gPc>>

----------------------------------------------------------------------------
(* Bounds of the model *)

MaxUploads == 2     \* upload requests in one behaviour
MaxRows == 2        \* records in a rulebook of SpecGroup
MaxDets == 2        \* detections in a detection list of SpecGroup

(* Program constants *)

MinSymLen == 2      \* app.py:112
MaxSymLen == 6      \* app.py:112
TableSymMax == 6    \* utils.py:114
GroupSymMax == 5    \* utils.py:133
AnnotateMax == 10   \* app.py:131

----------------------------------------------------------------------------
(* Python str methods on character sequences *)

Upper == {"A", "B", "C", "D", "E", "F", "G", "I", "J", "K", "L", "N", "O",
          "P", "S", "T", "U", "W", "X"}
Lower == {"a", "e", "g", "h", "i", "l", "t"}
Digit == {"0", "1", "5"}
PunctChars == {".", ",", ";", ":", "(", ")"}
WhiteChars == {" "}

isalnum(s) == Len(s) > 0 /\ \A i \in 1..Len(s) : s[i] \in Upper \cup Lower \cup Digit

isupper(s) == /\ \E i \in 1..Len(s) : s[i] \in Upper
              /\ \A i \in 1..Len(s) : s[i] \notin Lower

RECURSIVE lstrip(_, _)
lstrip(s, chars) ==
    IF s # <<>> /\ Head(s) \in chars THEN lstrip(Tail(s), chars) ELSE s

RECURSIVE rstrip(_, _)
rstrip(s, chars) ==
    IF s # <<>> /\ s[Len(s)] \in chars
    THEN rstrip(SubSeq(s, 1, Len(s) - 1), chars)
    ELSE s

strip(s, chars) == rstrip(lstrip(s, chars), chars)

\* str.split(): the maximal runs of non-whitespace characters, in order
RECURSIVE splitFrom(_, _, _)
splitFrom(s, cur, acc) ==
    IF s = <<>>
    THEN IF cur = <<>> THEN acc ELSE Append(acc, cur)
    ELSE IF Head(s) \in WhiteChars
         THEN splitFrom(Tail(s), <<>>, IF cur = <<>> THEN acc ELSE Append(acc, cur))
         ELSE splitFrom(Tail(s), Append(cur, Head(s)), acc)

split(s) == splitFrom(s, <<>>, <<>>)

\* str.replace(a, b) for single characters a, b
replaceChar(s, a, b) == [i \in 1..Len(s) |-> IF s[i] = a THEN b ELSE s[i]]

IsPrefix(p, s) == Len(p) <= Len(s) /\ SubSeq(s, 1, Len(p)) = p

\* str.replace(pat, ""): drops every non-overlapping occurrence, left to right
RECURSIVE removeAll(_, _)
removeAll(s, pat) ==
    IF s = <<>> THEN <<>>
    ELSE IF IsPrefix(pat, s)
         THEN removeAll(SubSeq(s, Len(pat) + 1, Len(s)), pat)
         ELSE <<Head(s)>> \o removeAll(Tail(s), pat)

----------------------------------------------------------------------------
(* Python dict as an association list in insertion order *)

DictKeys(d) == {d[i].key : i \in 1..Len(d)}

DictHas(d, k) == k \in DictKeys(d)

DictGet(d, k) == d[CHOOSE i \in 1..Len(d) : d[i].key = k].val

\* d[k] = v : replaces in place, or appends a new key
DictSet(d, k, v) ==
    IF DictHas(d, k)
    THEN [i \in 1..Len(d) |-> IF d[i].key = k THEN [key |-> k, val |-> v] ELSE d[i]]
    ELSE Append(d, [key |-> k, val |-> v])

RECURSIVE SumCounts(_)
SumCounts(d) == IF d = <<>> THEN 0 ELSE Head(d).val.count + SumCounts(Tail(d))

----------------------------------------------------------------------------
(* Symbol extraction, app.py:108-114 *)

UNKNOWN == <<"U", "N", "K", "N", "O", "W", "N">>

IsDetectionSymbol(word) ==
    isalnum(word) /\ isupper(word) /\ MinSymLen <= Len(word) /\ Len(word) <= MaxSymLen

ExtractSymbol(nearby_text) ==
    LET words == split(nearby_text)
        w(i) == strip(words[i], PunctChars)
        hits == {i \in 1..Len(words) : IsDetectionSymbol(w(i))}
    IN  IF hits = {} THEN UNKNOWN
        ELSE w(CHOOSE i \in hits : \A j \in hits : i <= j)

----------------------------------------------------------------------------
(* Grouping tables *)

KV(k, v) == [key |-> k, val |-> v]

PyNone == "<None>"
GenericDesc == "Generic Emergency Light"
LightPrefix == <<"L", "i", "g", "h", "t", "_">>

\* app.py:136-143
fallback_app ==
    << KV(<<"A", "1">>, "2x4 LED Emergency Fixture"),
       KV(<<"A", "1", "E">>, "Exit/Emergency Combo Unit"),
       KV(<<"W">>, "Wall-Mounted Emergency LED"),
       KV(<<"P">>, "Parking Lot Light"),
       KV(<<"E", "L">>, "Emergency Light"),
       KV(<<"E", "X">>, "Exit Sign") >>

\* app.py:149-153
clean_map_app ==
    << KV(<<"A", "I", "E">>, <<"A", "1", "E">>),
       KV(<<"A", "l", "E">>, <<"A", "1", "E">>),
       KV(<<"A", "E">>, <<"A", "1", "E">>),
       KV(<<"A", "1">>, <<"A", "1">>),
       KV(<<"B", "L", "O", "G">>, <<"A", "1", "E">>),
       KV(<<"J", "O", "T">>, <<"A", "1", "E">>),
       KV(<<"T", "A">>, <<"A", "1", "E">>),
       KV(<<"T">>, <<"W">>),
       KV(<<"I">>, <<"W">>),
       KV(<<"O">>, <<"0">>),
       KV(<<"S">>, <<"5">>) >>

\* utils.py:136-140
fallback_utils ==
    << KV(<<"A", "1">>, "2x4 LED Emergency Fixture"),
       KV(<<"A", "1", "E">>, "Exit/Emergency Combo Unit"),
       KV(<<"W">>, "Wall-Mounted Emergency LED") >>

\* utils.py:147-150
clean_map_utils ==
    << KV(<<"A", "I", "E">>, <<"A", "1", "E">>),
       KV(<<"A", "l", "E">>, <<"A", "1", "E">>),
       KV(<<"A", "E">>, <<"A", "1", "E">>),
       KV(<<"A", "1">>, <<"A", "1">>),
       KV(<<"B", "L", "O", "G">>, <<"A", "1", "E">>),
       KV(<<"J", "O", "T">>, <<"A", "1", "E">>),
       KV(<<"T", "A">>, <<"A", "1", "E">>),
       KV(<<"T">>, <<"W">>) >>

\* dict.get(k, default)
DictGetOr(d, k, default) == IF DictHas(d, k) THEN DictGet(d, k) ELSE default

----------------------------------------------------------------------------
(* The inline grouping of background_process, app.py:145-176 *)

\* faulty variant of CleanApp: the entry 'T' maps to 'I', itself a key of the map
CleanAppChained(sym) ==
    IF sym = <<"T">> THEN <<"I">> ELSE DictGetOr(clean_map_app, sym, sym)

\* sym = clean_map.get(sym, sym), app.py:154
CleanApp(sym) == DictGetOr(clean_map_app, sym, sym)

\* Priority 1, app.py:157-161: the first table_row whose stripped symbol is sym
AppRulebookDesc(sym, rulebook) ==
    LET hits == {i \in 1..Len(rulebook) :
                    /\ rulebook[i].type = "table_row"
                    /\ strip(rulebook[i].symbol, WhiteChars) = sym}
    IN  IF hits = {} THEN PyNone
        ELSE rulebook[CHOOSE i \in hits : \A j \in hits : i <= j].description

\* Priority 2, app.py:164-165: "if not desc" is true of None and of ""
AppResolve(sym, rulebook) ==
    LET desc == AppRulebookDesc(sym, rulebook)
    IN  IF desc = PyNone \/ desc = ""
        THEN DictGetOr(fallback_app, sym, GenericDesc)
        ELSE desc

\* faulty variant of Accumulate: a new key starts at 1 and is then incremented
AccumulateFromOne(summary, sym, desc) ==
    LET key == LightPrefix \o sym
        s1 == IF DictHas(summary, key) THEN summary
              ELSE DictSet(summary, key, [count |-> 1, description |-> desc])
        old == DictGet(s1, key)
    IN  DictSet(s1, key, [old EXCEPT !.count = @ + 1])

\* app.py:167-170
Accumulate(summary, sym, desc) ==
    LET key == LightPrefix \o sym
        s1 == IF DictHas(summary, key) THEN summary
              ELSE DictSet(summary, key, [count |-> 0, description |-> desc])
        old == DictGet(s1, key)
    IN  DictSet(s1, key, [old EXCEPT !.count = @ + 1])

\* one iteration of "for det in all_detections", app.py:145-170
AppGroupStep(summary, det, rulebook) ==
    LET sym == CleanApp(det.symbol)
    IN  Accumulate(summary, sym, AppResolve(sym, rulebook))

\* app.py:173-176
RECURSIVE AppFinalFrom(_, _)
AppFinalFrom(summary, final) ==
    IF summary = <<>> THEN final
    ELSE AppFinalFrom(Tail(summary),
                      DictSet(final, removeAll(Head(summary).key, LightPrefix),
                              [count |-> Head(summary).val.count,
                               description |-> Head(summary).val.description]))

AppFinalResult(summary) == AppFinalFrom(summary, <<>>)

RECURSIVE AppSummaryFrom(_, _, _)
AppSummaryFrom(summary, dets, rulebook) ==
    IF dets = <<>> THEN summary
    ELSE AppSummaryFrom(AppGroupStep(summary, Head(dets), rulebook), Tail(dets), rulebook)

\* Step 3 as a whole, app.py:134-176
AppGroup(dets, rulebook) == AppFinalResult(AppSummaryFrom(<<>>, dets, rulebook))

----------------------------------------------------------------------------
(* utils.group_lights, utils.py:126-160 *)

\* utils.py:131-132
UtilsRuleSymbol(symbol) ==
    replaceChar(replaceChar(replaceChar(strip(symbol, WhiteChars), "O", "0"),
                            "l", "1"), "I", "1")

\* utils.py:133
UtilsKeepsSymbol(symbol) == Len(symbol) <= GroupSymMax /\ isalnum(symbol)

\* utils.py:128-134: a dict assignment per table_row, in rulebook order
RECURSIVE SymbolDescFrom(_, _)
SymbolDescFrom(rulebook, symbol_desc) ==
    IF rulebook = <<>> THEN symbol_desc
    ELSE LET item == Head(rulebook)
             symbol == UtilsRuleSymbol(item.symbol)
         IN  SymbolDescFrom(Tail(rulebook),
                 IF item.type = "table_row" /\ UtilsKeepsSymbol(symbol)
                 THEN DictSet(symbol_desc, symbol, item.description)
                 ELSE symbol_desc)

SymbolDesc(rulebook) == SymbolDescFrom(rulebook, <<>>)

\* utils.py:151
CleanUtils(sym) == DictGetOr(clean_map_utils, sym, sym)

\* utils.py:153
UtilsResolve(sym, symbol_desc) ==
    DictGetOr(symbol_desc, sym, DictGetOr(fallback_utils, sym, GenericDesc))

\* one iteration of "for det in detections", utils.py:143-158
UtilsGroupStep(summary, det, symbol_desc) ==
    LET sym == CleanUtils(det.symbol)
    IN  Accumulate(summary, sym, UtilsResolve(sym, symbol_desc))

----------------------------------------------------------------------------
(* Documents: what the OCR and the shape detector return for an uploaded file *)

Names == {"a.pdf", "b.pdf"}
DocIds == {"d1", "d2"}

Note(text) == [type |-> "note", text |-> text, source_sheet |-> "page_1"]
TableRow(symbol, description) ==
    [type |-> "table_row", symbol |-> symbol, description |-> description,
     source_sheet |-> "page_1"]

\* utils.py:113-114: the symbols extract_notes_and_table lets into a table_row
IsTableSymbol(symbol) ==
    Len(symbol) <= TableSymMax /\ isalnum(symbol) /\ isupper(symbol)

\* extract_notes_and_table(file_path), utils.py:71-124, per document
DocRulebook(d) ==
    IF d = "d1"
    THEN << Note("EMERGENCY LIGHTS ON UNSWITCHED POWER"),
            TableRow(<<"A", "1", "E">>, "Combo Unit 90min Battery") >>
    ELSE <<>>

\* extract_nearby_text per detection of detect_shaded_rectangles, in page order,
\* utils.py:36-69
DocNearbyTexts(d) ==
    IF d = "d1"
    THEN << <<"(", "A", "I", "E", ")", " ", "1", "2">>,
            <<"e", "x", "i", "t", " ", "E", "X", ".">> >>
    ELSE <<>>

\* pdf_to_images(file_path), utils.py:16-34: one page per document
DocImages(d) == << [image |-> d, page_num |-> 1, name |-> "page_1"] >>

\* app.py:100-121
DocDetections(d) ==
    [i \in 1..Len(DocNearbyTexts(d)) |->
        [symbol |-> ExtractSymbol(DocNearbyTexts(d)[i]),
         text_nearby |-> DocNearbyTexts(d)[i],
         source_sheet |-> "page_1"]]

----------------------------------------------------------------------------
(* The job table and the file system *)

UploadPath(n) == "uploads/" \o n                                \* app.py:42
RulebookPath(n) == "results/rulebook_" \o n \o ".json"          \* app.py:93
DetectionsPath(n) == "results/detections_" \o n \o ".json"      \* app.py:124
ResultPath(n) == "results/result_" \o n \o ".json"              \* app.py:179
AnnotationPath(n) == "annotation_example.png"                   \* app.py:131

InProgressEntry == [status |-> "in_progress"]                           \* app.py:47
CompleteEntry(result) == [status |-> "complete", result |-> result]     \* app.py:184-187
ErrorEntry(message) == [status |-> "error", message |-> message]        \* app.py:192-195

\* d[k] = v on a dict keyed by strings
Put(d, k, v) == IF k \in DOMAIN d THEN [d EXCEPT ![k] = v] ELSE (k :> v) @@ d

\* app.py:45-47
RegisterJob(status, n) == IF n \notin DOMAIN status THEN Put(status, n, InProgressEntry) ELSE status

\* faulty variant of FailedStatus: the handler only logs the exception
FailedStatusLogged(status, n, message) == status

\* faulty variant of FailedStatus: the handler updates the entry in place
\* (processing_status[pdf_name].update(...)) instead of replacing it
FailedStatusMerged(status, n, message) ==
    Put(status, n,
        IF n \in DOMAIN status /\ "result" \in DOMAIN status[n]
        THEN [status |-> "error", message |-> message, result |-> status[n].result]
        ELSE ErrorEntry(message))

\* the entry a failed run leaves for its name, app.py:190-195
FailedStatus(status, n, message) == Put(status, n, ErrorEntry(message))

\* the entry a finished run leaves for its name, app.py:183-187
FinishedStatus(status, n, result) == Put(status, n, CompleteEntry(result))

NewThread(n) ==
    [pdf_name |-> n, file_path |-> UploadPath(n), pc |-> "extract",
     rulebook |-> <<>>, images |-> <<>>, all_detections |-> <<>>,
     final_result |-> <<>>, error |-> ""]

\* a thread whose background_process call has returned: its locals are gone
Returned(t, pc, message) ==
    [NewThread(t.pdf_name) EXCEPT !.pc = pc, !.error = message]

\* open(path, 'w') and the write that follows
WriteFile(fs, path, content) ==
    Put(fs, path, [content |-> content, whole |-> TRUE])

\* open(path, 'w') and a write that raises: the file is created or truncated
TruncateFile(fs, path) ==
    Put(fs, path, [content |-> <<>>, whole |-> FALSE])

Wrote(writers, path, n) ==
    Put(writers, path, (IF path \in DOMAIN writers THEN writers[path] ELSE {}) \cup {n})

\* str(e) of the exception a stage raises
StageError(pc) == pc \o " failed"

Running(t) == t.pc \notin {"done", "failed"}

----------------------------------------------------------------------------
(* get_result, app.py:58-85 *)

NoResp == [code |-> 0]

GetResult(n) ==
    IF n \notin DOMAIN processing_status
    THEN [code |-> 404, error |-> "PDF not found or not processed"]
    ELSE LET status_info == processing_status[n]
         IN  IF status_info.status = "in_progress"
             THEN [code |-> 200, pdf_name |-> n, status |-> "in_progress",
                   message |-> "Processing is still in progress. Please try again later."]
             ELSE IF status_info.status = "complete"
             THEN [code |-> 200, pdf_name |-> n, status |-> "complete",
                   result |-> status_info.result]
             ELSE [code |-> 500, error |-> "Processing failed",
                   details |-> IF "message" \in DOMAIN status_info
                               THEN status_info.message ELSE "Unknown error"]

----------------------------------------------------------------------------
(* Spec: the handlers and the worker threads *)

InitJobs ==
    /\ processing_status = <<>>
    /\ files = <<>>
    /\ threads = <<>>
    /\ firstComplete = [n \in Names |-> NoResp]
    /\ statusWrites = [n \in Names |-> 0]
    /\ fileWriters = <<>>

GroupIdle ==
    /\ gMode = "off"
    /\ gRulebook = <<>>
    /\ gDets = <<>>
    /\ gIdx = 0
    /\ gSummary = <<>>
    /\ gFinal = <<>>
    /\ gPc = "done"

Init == InitJobs /\ GroupIdle

\* POST /blueprints/upload, app.py:30-56, with the file d under the name n
Upload(n, d) ==
    /\ Len(threads) < MaxUploads
    /\ files' = WriteFile(files, UploadPath(n), d)
    /\ processing_status' = RegisterJob(processing_status, n)
    /\ threads' = Append(threads, NewThread(n))
    /\ UNCHANGED <<firstComplete, statusWrites, fileWriters, groupVars>>

\* the 400 responses of upload (app.py:32-37) and get_result (app.py:61-62)
BadRequest == UNCHANGED vars

\* GET /blueprints/result?pdf_name=n, app.py:58-85
Poll(n) ==
    /\ firstComplete' =
          IF GetResult(n).code = 200 /\ GetResult(n).status = "complete"
             /\ firstComplete[n] = NoResp
          THEN [firstComplete EXCEPT ![n] = GetResult(n)]
          ELSE firstComplete
    /\ UNCHANGED <<processing_status, files, threads, statusWrites, fileWriters, groupVars>>

\* app.py:92
ExtractRulebook(i) ==
    /\ threads[i].pc = "extract"
    /\ threads' = [threads EXCEPT ![i].rulebook = DocRulebook(files[threads[i].file_path].content),
                                  ![i].pc = "save_rulebook"]
    /\ UNCHANGED <<processing_status, files, firstComplete, statusWrites, fileWriters, groupVars>>

\* app.py:93-95
SaveRulebook(i) ==
    LET t == threads[i] IN
    /\ t.pc = "save_rulebook"
    /\ files' = WriteFile(files, RulebookPath(t.pdf_name), [rulebook |-> t.rulebook])
    /\ fileWriters' = Wrote(fileWriters, RulebookPath(t.pdf_name), t.pdf_name)
    /\ threads' = [threads EXCEPT ![i].pc = "detect"]
    /\ UNCHANGED <<processing_status, firstComplete, statusWrites, groupVars>>

\* app.py:99-121
Detect(i) ==
    LET t == threads[i]
        d == files[t.file_path].content
    IN
    /\ t.pc = "detect"
    /\ threads' = [threads EXCEPT ![i].images = DocImages(d),
                                  ![i].all_detections = DocDetections(d),
                                  ![i].pc = "save_dets"]
    /\ UNCHANGED <<processing_status, files, firstComplete, statusWrites, fileWriters, groupVars>>

\* app.py:124-126
SaveDetections(i) ==
    LET t == threads[i] IN
    /\ t.pc = "save_dets"
    /\ files' = WriteFile(files, DetectionsPath(t.pdf_name), t.all_detections)
    /\ fileWriters' = Wrote(fileWriters, DetectionsPath(t.pdf_name), t.pdf_name)
    /\ threads' = [threads EXCEPT ![i].pc = "annotate"]
    /\ UNCHANGED <<processing_status, firstComplete, statusWrites, groupVars>>

\* app.py:130-131 with utils.draw_detections, utils.py:162-170
Annotate(i) ==
    LET t == threads[i]
        n == Len(t.all_detections)
        shown == SubSeq(t.all_detections, 1, IF n < AnnotateMax THEN n ELSE AnnotateMax)
    IN
    /\ t.pc = "annotate"
    /\ IF t.images # <<>> /\ t.all_detections # <<>>
       THEN /\ files' = WriteFile(files, AnnotationPath(t.pdf_name),
                                  [image |-> t.images[1].image, detections |-> shown])
            /\ fileWriters' = Wrote(fileWriters, AnnotationPath(t.pdf_name), t.pdf_name)
       ELSE UNCHANGED <<files, fileWriters>>
    /\ threads' = [threads EXCEPT ![i].pc = "group"]
    /\ UNCHANGED <<processing_status, firstComplete, statusWrites, groupVars>>

\* app.py:134-181
GroupAndSave(i) ==
    LET t == threads[i]
        final_result == AppGroup(t.all_detections, t.rulebook)
    IN
    /\ t.pc = "group"
    /\ files' = WriteFile(files, ResultPath(t.pdf_name), final_result)
    /\ fileWriters' = Wrote(fileWriters, ResultPath(t.pdf_name), t.pdf_name)
    /\ threads' = [threads EXCEPT ![i].final_result = final_result, ![i].pc = "update"]
    /\ UNCHANGED <<processing_status, firstComplete, statusWrites, groupVars>>

\* app.py:183-187
UpdateStatus(i) ==
    LET t == threads[i] IN
    /\ t.pc = "update"
    /\ processing_status' = FinishedStatus(processing_status, t.pdf_name, t.final_result)
    /\ statusWrites' = [statusWrites EXCEPT ![t.pdf_name] = @ + 1]
    /\ threads' = [threads EXCEPT ![i] = Returned(t, "done", "")]
    /\ UNCHANGED <<files, firstComplete, fileWriters, groupVars>>

\* the file a stage is writing when it fails
StageFile(t) ==
    IF t.pc = "save_rulebook" THEN RulebookPath(t.pdf_name)
    ELSE IF t.pc = "save_dets" THEN DetectionsPath(t.pdf_name)
    ELSE ResultPath(t.pdf_name)

\* the handler of "except Exception", app.py:190-195
Caught(i, message) ==
    LET t == threads[i] IN
    /\ processing_status' = FailedStatus(processing_status, t.pdf_name, message)
    /\ statusWrites' = [statusWrites EXCEPT ![t.pdf_name] = @ + 1]
    /\ threads' = [threads EXCEPT ![i] = Returned(t, "failed", message)]

\* a stage raises before it has written anything (app.py:92-181 inside "try")
Fail(i) ==
    /\ threads[i].pc \in {"extract", "save_rulebook", "detect", "save_dets",
                          "annotate", "group"}
    /\ Caught(i, StageError(threads[i].pc))
    /\ UNCHANGED <<files, firstComplete, fileWriters, groupVars>>

\* a file-writing stage raises after open(path, 'w') has created or truncated the
\* file (app.py:94-95, 125-126, 180-181)
FailWriting(i) ==
    LET t == threads[i] IN
    /\ t.pc \in {"save_rulebook", "save_dets", "group"}
    /\ files' = TruncateFile(files, StageFile(t))
    /\ fileWriters' = Wrote(fileWriters, StageFile(t), t.pdf_name)
    /\ Caught(i, StageError(t.pc))
    /\ UNCHANGED <<firstComplete, groupVars>>

Next ==
    \/ \E n \in Names, d \in DocIds : Upload(n, d)
    \/ BadRequest
    \/ \E n \in Names : Poll(n)
    \/ \E i \in 1..Len(threads) : ExtractRulebook(i)
    \/ \E i \in 1..Len(threads) : SaveRulebook(i)
    \/ \E i \in 1..Len(threads) : Detect(i)
    \/ \E i \in 1..Len(threads) : SaveDetections(i)
    \/ \E i \in 1..Len(threads) : Annotate(i)
    \/ \E i \in 1..Len(threads) : GroupAndSave(i)
    \/ \E i \in 1..Len(threads) : UpdateStatus(i)
    \/ \E i \in 1..Len(threads) : Fail(i)
    \/ \E i \in 1..Len(threads) : FailWriting(i)

Spec == Init /\ [][Next]_vars

----------------------------------------------------------------------------
(* SpecGroup: the two groupers, one detection per step *)

SeqsUpTo(S, n) == UNION {[1..k -> S] : k \in 0..n}

\* rulebook records as extract_notes_and_table builds them (utils.py:93-97, 113-121):
\* a table_row carries a symbol that passed IsTableSymbol and a description of one
\* to four words
RuleRecords ==
    {r \in { Note("NOTE: EMERGENCY LIGHTS ON UNSWITCHED POWER"),
             TableRow(<<"W">>, "Wall Pack 120V"),
             TableRow(<<"A", "1", "E">>, "Combo Unit 90min Battery"),
             TableRow(<<"A", "1", "E">>, "Combo Unit Remote Head"),
             TableRow(<<"A", "I", "E">>, "Combo Unit Alt"),
             TableRow(<<"A", "B", "C", "D", "E", "F">>, "Long Tag Fixture"),
             TableRow(<<"a", "1">>, "lowercase tag dropped") } :
        r.type = "table_row" => IsTableSymbol(r.symbol)}

\* OCR text near a detection, as extract_nearby_text returns it (utils.py:58-69)
NearbyTexts ==
    { <<"(", "A", "I", "E", ")", " ", "1", "2">>,
      <<"A", "1", "E">>,
      <<"e", "x", "i", "t", " ", "E", "X", ".">>,
      <<"W", " ", "A", "B", "C", "D", "E", "F", ";">>,
      <<"W", " ", "5", ",", " ", "a", "1">> }

\* detections as background_process builds them, app.py:108-121
AppDetections == {[symbol |-> ExtractSymbol(t)] : t \in NearbyTexts}

\* detections handed to group_lights by a caller
UtilsDetections ==
    {[symbol |-> sym] : sym \in { <<"W">>, <<"T">>, <<"A", "1">>, <<"A", "1", "E">>,
                                  <<"A", "I", "E">>, <<"A", "B", "C", "D", "E", "F">>,
                                  UNKNOWN }}

InitGroup ==
    /\ gMode \in {"app", "utils"}
    /\ gRulebook \in SeqsUpTo(RuleRecords, MaxRows)
    /\ gDets \in SeqsUpTo(IF gMode = "app" THEN AppDetections ELSE UtilsDetections, MaxDets)
    /\ gIdx = 0
    /\ gSummary = <<>>
    /\ gFinal = <<>>
    /\ gPc = "fold"
    /\ InitJobs

\* app.py:145-170, one detection
GroupStepApp ==
    /\ gMode = "app" /\ gPc = "fold" /\ gIdx < Len(gDets)
    /\ gSummary' = AppGroupStep(gSummary, gDets[gIdx + 1], gRulebook)
    /\ gIdx' = gIdx + 1
    /\ UNCHANGED <<gMode, gRulebook, gDets, gFinal, gPc, jobVars>>

\* app.py:172-176
GroupFinalApp ==
    /\ gMode = "app" /\ gPc = "fold" /\ gIdx = Len(gDets)
    /\ gFinal' = AppFinalResult(gSummary)
    /\ gPc' = "done"
    /\ UNCHANGED <<gMode, gRulebook, gDets, gIdx, gSummary, jobVars>>

\* utils.py:143-158, one detection
GroupStepUtils ==
    /\ gMode = "utils" /\ gPc = "fold" /\ gIdx < Len(gDets)
    /\ gSummary' = UtilsGroupStep(gSummary, gDets[gIdx + 1], SymbolDesc(gRulebook))
    /\ gIdx' = gIdx + 1
    /\ UNCHANGED <<gMode, gRulebook, gDets, gFinal, gPc, jobVars>>

\* utils.py:160
GroupReturnUtils ==
    /\ gMode = "utils" /\ gPc = "fold" /\ gIdx = Len(gDets)
    /\ gFinal' = [summary |-> gSummary]
    /\ gPc' = "done"
    /\ UNCHANGED <<gMode, gRulebook, gDets, gIdx, gSummary, jobVars>>

NextGroup == GroupStepApp \/ GroupFinalApp \/ GroupStepUtils \/ GroupReturnUtils

SpecGroup == InitGroup /\ [][NextGroup]_vars

----------------------------------------------------------------------------
(* SpecNorm: a normalizer applied to a symbol, and again to what it returned *)

MaxNormLen == 3     \* length of the enumerated symbols

NormChars == {"A", "E", "I", "O", "T", "l", "1", "0", " "}

NormSymbols ==
    SeqsUpTo(NormChars, MaxNormLen)
        \cup DictKeys(clean_map_app) \cup {e.val : e \in {clean_map_app[i] : i \in 1..Len(clean_map_app)}}
        \cup DictKeys(fallback_app) \cup {UNKNOWN}

\* the normalizers of the two groupers: the token map on a detection's symbol
\* (app.py:154, utils.py:151) and the clean-up of a rulebook symbol (app.py:159,
\* utils.py:131-132)
Normalize(mode, sym) ==
    IF mode = "clean_app" THEN CleanApp(sym)
    ELSE IF mode = "clean_utils" THEN CleanUtils(sym)
    ELSE IF mode = "rule_app" THEN strip(sym, WhiteChars)
    ELSE UtilsRuleSymbol(sym)

InitNorm ==
    /\ gMode \in {"clean_app", "clean_utils", "rule_app", "rule_utils"}
    /\ gDets \in {<<[symbol |-> sym]>> : sym \in NormSymbols}
    /\ gRulebook = <<>>
    /\ gIdx = 0
    /\ gSummary = <<>>
    /\ gFinal = <<>>
    /\ gPc = "fold"
    /\ InitJobs

\* the normalizer on the raw symbol
NormalizeOnce ==
    /\ gIdx = 0
    /\ gSummary' = <<Normalize(gMode, gDets[1].symbol)>>
    /\ gIdx' = 1
    /\ UNCHANGED <<gMode, gRulebook, gDets, gFinal, gPc, jobVars>>

\* the normalizer on its own output
NormalizeAgain ==
    /\ gIdx = 1
    /\ gFinal' = <<Normalize(gMode, gSummary[1])>>
    /\ gIdx' = 2
    /\ gPc' = "done"
    /\ UNCHANGED <<gMode, gRulebook, gDets, gSummary, jobVars>>

NextNorm == NormalizeOnce \/ NormalizeAgain

SpecNorm == InitNorm /\ [][NextNorm]_vars

----------------------------------------------------------------------------
(* Claims about the job table and the worker threads, under Spec *)

\* C1: the entry of a name is created as in_progress, is assigned exactly once
\* more (to complete or to error) and is never assigned again, whatever the
\* uploads, re-uploads of the same name included.
C1_StatusWrittenOnce ==
    \A n \in Names :
        /\ statusWrites[n] <= 1
        /\ (n \in DOMAIN processing_status /\ statusWrites[n] = 0)
              => processing_status[n] = [status |-> "in_progress"]

\* C2: while a background_process run started by upload has not made its
\* terminal write, get_result for its name answers in_progress, without a result.
C2_RunningMeansInProgress ==
    \A i \in 1..Len(threads) :
        Running(threads[i]) =>
            /\ GetResult(threads[i].pdf_name).code = 200
            /\ GetResult(threads[i].pdf_name).status = "in_progress"
            /\ "result" \notin DOMAIN GetResult(threads[i].pdf_name)

\* C3: once get_result has answered complete with a result for a name, it
\* answers complete with that same result ever after.
C3_CompletePollStable ==
    \A n \in Names :
        firstComplete[n] # NoResp => GetResult(n) = firstComplete[n]

\* C4: the step in which a stage of a run raises leaves the run's entry at
\* status error with the message of the exception, ends the run inside the
\* worker, and leaves the entry of every other name as it was.
C4_FailureSetsError ==
    [][\A i \in 1..Len(threads) :
          (Running(threads[i]) /\ threads'[i].pc = "failed") =>
              LET n == threads[i].pdf_name
                  message == StageError(threads[i].pc)
              IN  /\ threads'[i].error = message
                  /\ n \in DOMAIN processing_status'
                  /\ processing_status'[n] = [status |-> "error", message |-> message]
                  /\ DOMAIN processing_status' = DOMAIN processing_status
                  /\ \A m \in DOMAIN processing_status \ {n} :
                        processing_status'[m] = processing_status[m]]_vars

\* C4 witness: a run has failed, its entry says error, and another name has an entry
C4_Witness ==
    \E i \in 1..Len(threads) :
        /\ threads[i].pc = "failed"
        /\ processing_status[threads[i].pdf_name].status = "error"
        /\ \E m \in DOMAIN processing_status : m # threads[i].pdf_name

\* C5 as claimed: a job whose run failed has left no file behind, and has no
\* result.
C5_AllOrNothing ==
    \A i \in 1..Len(threads) :
        threads[i].pc = "failed" =>
            /\ \A p \in DOMAIN fileWriters : threads[i].pdf_name \notin fileWriters[p]
            /\ "result" \notin DOMAIN processing_status[threads[i].pdf_name]

\* C5 as amended: the step in which a stage of a run raises leaves the run's
\* entry without a result field, so that get_result answers 500, and removes
\* or restores no file: every file on disk stays as it was, but for the file
\* the failing stage was writing, which may be left truncated.
C5_FailureKeepsArtifacts ==
    [][\A i \in 1..Len(threads) :
          (Running(threads[i]) /\ threads'[i].pc = "failed") =>
              LET n == threads[i].pdf_name
              IN  /\ "result" \notin DOMAIN processing_status'[n]
                  /\ GetResult(n)'.code = 500
                  /\ \A p \in DOMAIN files :
                        /\ p \in DOMAIN files'
                        /\ \/ (~files'[p].whole /\ p = StageFile(threads[i]))
                           \/ files'[p] = files[p]]_vars

\* C5 witness: the only run of a name has failed after it saved its rulebook,
\* and the rulebook file it wrote is still on disk
C5_Witness ==
    \E i \in 1..Len(threads) :
        /\ threads[i].pc = "failed"
        /\ \A j \in 1..Len(threads) : threads[j].pdf_name = threads[i].pdf_name => j = i
        /\ processing_status[threads[i].pdf_name].status = "error"
        /\ RulebookPath(threads[i].pdf_name) \in DOMAIN files
        /\ files[RulebookPath(threads[i].pdf_name)].whole
        /\ threads[i].pdf_name \in fileWriters[RulebookPath(threads[i].pdf_name)]

\* C10: runs for different names share no location: no file is written by
\* the runs of two names.
C10_NoSharedLocation ==
    \A p \in DOMAIN fileWriters : Cardinality(fileWriters[p]) <= 1

----------------------------------------------------------------------------
(* Claims about the groupers, under SpecGroup *)

\* C6: at every point of the fold the counts of the summary sum to the number
\* of detections folded, each count is the number of folded detections whose
\* normalized symbol is its key, and the returned summary (final_result in
\* app.py, summary in group_lights) sums to the number of detections.
C6_CountInvariant ==
    LET mode == IF gMode = "app" THEN "clean_app" ELSE "clean_utils"
        assigned(key) == {i \in 1..gIdx :
                             LightPrefix \o Normalize(mode, gDets[i].symbol) = key}
    IN  /\ SumCounts(gSummary) = gIdx
        /\ \A k \in 1..Len(gSummary) :
              gSummary[k].val.count = Cardinality(assigned(gSummary[k].key))
        /\ gPc = "done" =>
              IF gMode = "app"
              THEN SumCounts(gFinal) = Len(gDets)
              ELSE SumCounts(gFinal.summary) = Len(gDets)

\* C6 witness: the inline grouping has returned for two detections whose raw
\* symbols differ and normalize to one key
C6_Witness ==
    /\ gMode = "app" /\ gPc = "done"
    /\ \E i, j \in 1..Len(gDets) :
          /\ gDets[i].symbol # gDets[j].symbol
          /\ CleanApp(gDets[i].symbol) = CleanApp(gDets[j].symbol)
    /\ SumCounts(gFinal) = Len(gDets)

\* C7: the description of every folded detection is that of a rulebook
\* table_row of its normalized symbol when there is one, else the fallback
\* table's when the symbol is in it, else the generic default.
C7_ResolutionOrder ==
    \A i \in 1..gIdx :
        LET sym == Normalize(IF gMode = "app" THEN "clean_app" ELSE "clean_utils",
                             gDets[i].symbol)
            rows == {j \in 1..Len(gRulebook) :
                        /\ gRulebook[j].type = "table_row"
                        /\ Normalize(IF gMode = "app" THEN "rule_app" ELSE "rule_utils",
                                     gRulebook[j].symbol) = sym}
            fallback == IF gMode = "app" THEN fallback_app ELSE fallback_utils
            desc == DictGet(gSummary, LightPrefix \o sym).description
        IN  IF rows # {} THEN desc \in {gRulebook[j].description : j \in rows}
            ELSE IF DictHas(fallback, sym) THEN desc = DictGet(fallback, sym)
            ELSE desc = GenericDesc

\* C8: among the table_rows of one normalized symbol the earliest gives the
\* description: to the folded detections of the inline grouping, and to the
\* symbol_desc map of group_lights.
C8_FirstRowWins ==
    LET first(rows) == CHOOSE j \in rows : \A k \in rows : j <= k
        rowsOf(mode, sym) == {j \in 1..Len(gRulebook) :
                                 /\ gRulebook[j].type = "table_row"
                                 /\ Normalize(mode, gRulebook[j].symbol) = sym}
    IN  IF gMode = "app"
        THEN \A i \in 1..gIdx :
                LET sym == CleanApp(gDets[i].symbol)
                IN  rowsOf("rule_app", sym) # {} =>
                       DictGet(gSummary, LightPrefix \o sym).description
                          = gRulebook[first(rowsOf("rule_app", sym))].description
        ELSE \A i \in 1..gIdx :
                LET sym == CleanUtils(gDets[i].symbol)
                IN  DictHas(SymbolDesc(gRulebook), sym) =>
                       DictGet(gSummary, LightPrefix \o sym).description
                          = gRulebook[first(rowsOf("rule_utils", sym))].description

----------------------------------------------------------------------------
(* Claim about the normalizers, under SpecNorm *)

\* C9: a normalizer applied to its own output returns that output.
C9_NormalizeIdempotent ==
    gIdx = 2 => gFinal = gSummary

\* C9 witness: the normalizer changed the raw symbol and has been applied again
C9_Witness ==
    /\ gIdx = 2
    /\ gSummary[1] # gDets[1].symbol
    /\ gFinal = gSummary

====
